---------------------------- MODULE Spec2Model ----------------------------
(***************************************************************************)
(* The bloomd filter manager (src/src/bloomd/filter_manager.c): an MVCC    *)
(* chain of versions of the name -> wrapper index, client operations that  *)
(* read the latest version without locking, destructive operations that    *)
(* publish a new version under the write mutex, the vacuum thread that     *)
(* retires old versions after a cooldown, and the final teardown.          *)
(*                                                                         *)
(* Pointers are indices: a version is an index into the sequence versions, *)
(* a wrapper an index into the sequence wrappers, and 0 is NULL.  A freed  *)
(* object keeps its slot (live = FALSE, fate # "live") so that a later use *)
(* of the dangling pointer is visible.                                     *)
(***************************************************************************)
EXTENDS Integers, Sequences, FiniteSets, TLC

\* Bounds of the model.
MaxVersions == 2          \* versions allocated after the initial one
MaxCycles   == 2          \* cooldowns counted on one version (then "many")

Names   == {"a", "b"}     \* filter names the clients use
Clients == {1, 2}         \* client threads
NoName  == "-"            \* the operations that take no filter name

NamedReadOps == {"flush", "check", "set", "unmap", "cb"}
ListOps      == {"list", "cold"}
WriteOps     == {"create", "drop", "clear"}

VARIABLES
    versions,    \* Seq of filtmgr_vsn (plus live: not yet freed)
    wrappers,    \* Seq of bloom_filter_wrapper (plus the engine's state)
    latest,      \* mgr->latest
    write_lock,  \* mgr->write_lock: the holder, or 0
    disk,        \* disk[n]: the folder bloomd.<n> exists in the data dir
    cl,          \* cl[t]: client thread t's position and locals
    vac,         \* the vacuum thread's position and locals
    should_run,  \* *should_run, the stop flag shared with the worker
    crashed,     \* "no", or the dereference the process died on
    mgr_freed,   \* destroy_filter_manager has run
    est,         \* history: est[n] is the last returned create/drop/clear on n
    load         \* the workload: the names and operations the clients use

vars == <<versions, wrappers, latest, write_lock, disk, cl, vac,
          should_run, crashed, mgr_freed, est, load>>

-----------------------------------------------------------------------------
\* Data

\* add_filter's wrapper: is_active = 1, is_hot as given, should_delete = 0.
\* proxied is the engine's state (bloomf_is_proxied); how is history: the
\* destructive operation that removed the wrapper.
NewWrapper(n, hot, prox) ==
    [name |-> n, is_active |-> TRUE, is_hot |-> hot, should_delete |-> FALSE,
     proxied |-> prox, fate |-> "live", how |-> "none"]

NoObs == [n \in Names |-> "none"]

IdleClient ==
    [pc |-> "idle", op |-> "none", arg |-> NoName, cur |-> 0, filt |-> 0,
     ret |-> 0, out |-> {}, fault |-> FALSE, obs |-> NoObs]

VLive(v) == versions[v].live
WLive(w) == wrappers[w].fate = "live"

\* hashmap_get / hashmap_put / hashmap_delete on a version's filter_map.
hashmap_get(map, n) == map[n]
hashmap_put(map, n, w) == [map EXCEPT ![n] = w]
hashmap_delete(map, n) == [map EXCEPT ![n] = 0]

\* take_filter's result (its write of vsn->is_hot is in the callers' actions).
take_filter(v, n) ==
    LET filt == hashmap_get(versions[v].filter_map, n)
    IN  IF filt # 0 /\ wrappers[filt].is_active THEN filt ELSE 0

\* The version left as it is.
MarkHotNot(vs, v) == vs

\* vsn->is_hot = 1
MarkHot(vs, v) == [vs EXCEPT ![v].is_hot = TRUE]

\* A new version numbered two past the latest.
create_new_version_skip(vs, cur) ==
    [is_hot |-> TRUE, vsn |-> vs[cur].vsn + 2, filter_map |-> vs[cur].filter_map,
     deleted |-> 0, prev |-> cur, live |-> TRUE]

\* create_new_version: vsn = latest.vsn + 1, prev = latest, is_hot = 1, and
\* a copy of the latest index (the wrappers are shared).
create_new_version(vs, cur) ==
    [is_hot |-> TRUE, vsn |-> vs[cur].vsn + 1, filter_map |-> vs[cur].filter_map,
     deleted |-> 0, prev |-> cur, live |-> TRUE]

\* destroy_version: frees the map and the struct, touches no wrapper.  What
\* the freed struct still holds is kept, but for its flag.
destroy_version(vs, v) == [vs EXCEPT ![v].live = FALSE, ![v].is_hot = FALSE]

\* delete_filter: bloomf_delete if should_delete, else bloomf_close; then
\* the wrapper is freed.
delete_filter(ws, w) ==
    [ws EXCEPT ![w].fate = IF ws[w].should_delete THEN "deleted" ELSE "closed",
               ![w].is_hot = FALSE, ![w].proxied = FALSE]

\* bloomf_delete removes the folder bloomd.<name>; bloomf_close keeps it.
DiskAfterDelete(d, ws, w) ==
    IF ws[w].should_delete THEN [d EXCEPT ![ws[w].name] = FALSE] ELSE d

-----------------------------------------------------------------------------
\* init_filter_manager: version 0 with an empty map, then
\* load_existing_filters adds one cold wrapper per folder found.  The data
\* directory is empty or holds bloomd.b; the engine reports the loaded
\* filter proxied or not.  The worker is started right after.
Init ==
    /\ \E found \in {{}, {"b"}} : \E prox \in BOOLEAN :
        /\ (found = {} => prox = FALSE)
        /\ wrappers = IF found = {} THEN <<>>
                      ELSE <<NewWrapper("b", FALSE, prox)>>
        /\ versions = <<[is_hot |-> FALSE, vsn |-> 0,
                         filter_map |-> [n \in Names |->
                                            IF n \in found THEN 1 ELSE 0],
                         deleted |-> 0, prev |-> 0, live |-> TRUE]>>
        /\ disk = [n \in Names |-> n \in found]
    /\ latest = 1
    /\ write_lock = 0
    /\ cl = [t \in Clients |-> IdleClient]
    /\ vac = [pc |-> "loop", last_vsn |-> 0, current |-> 0, stack |-> <<>>,
              cycles |-> 0]
    /\ should_run = TRUE
    /\ crashed = "no"
    /\ mgr_freed = FALSE
    /\ est = [n \in Names |-> "none"]

\* The workloads.  Core: every operation but unmap_filter and
\* list_cold_filters, on both names.  All: every operation, on the name the
\* data directory may hold.
CoreLoad == [names |-> Names, reads |-> NamedReadOps \ {"unmap"},
             lists |-> {"list"}]
AllLoad  == [names |-> {"b"}, reads |-> NamedReadOps, lists |-> ListOps]

\* The process is alive and the manager exists.
Running == crashed = "no" /\ ~mgr_freed

\* A call that has returned hands its result to its caller before any other
\* thread moves (Return changes nothing another thread reads).
Ready == Running /\ \A u \in Clients : cl[u].pc # "done"

\* A client finishes call op(n) with return code r and list l; f: the call
\* touched freed memory; o: what it could rely on about n when it started.
Done(op, n, r, l, f, o) ==
    [IdleClient EXCEPT !.pc = "done", !.op = op, !.arg = n, !.ret = r,
                       !.out = l, !.fault = f, !.obs = o]

\* The part of a call's expectations that is about name n.
About(o, n) == [m \in Names |-> IF m = n THEN o[m] ELSE "none"]

-----------------------------------------------------------------------------
\* Read-side operations: flush, check_keys, set_keys, unmap_filter,
\* filter_cb, list_filters, list_cold_filters.  Each starts with the same
\* statement; which operation it is, and on which name, is drawn where the
\* code first uses it.

\* `filtmgr_vsn *current = mgr->latest;`: the one load of the latest pointer.
\* obs is history: the last returned create/drop/clear per name at the
\* start of the call.  No call starts once shutdown has begun.
Start(t) ==
    /\ Ready
    /\ should_run
    /\ cl[t].pc = "idle"
    /\ cl' = [cl EXCEPT ![t] = [IdleClient EXCEPT !.pc = "loaded",
                                    !.cur = latest, !.obs = est]]
    /\ UNCHANGED <<load, versions, wrappers, latest, write_lock, disk, vac,
                   should_run, crashed, mgr_freed, est>>

\* take_filter(current, filter_name) and `if (!filt) return -1;`; flush and
\* filter_cb then use the wrapper without its lock and return 0.  A freed
\* version or wrapper is read at the caller's peril: the process dies, the
\* lookup misses, or it reads what the freed memory still holds.
Take(t) ==
    /\ Ready
    /\ cl[t].pc = "loaded"
    /\ \E op \in load.reads : \E n \in load.names :
       LET c == cl[t]
           v == c.cur
           w == hashmap_get(versions[v].filter_map, n)
           dangling == ~VLive(v) \/ (w # 0 /\ ~WLive(w))
           filt == take_filter(v, n)
           o == About(c.obs, n)
           next(f) == IF filt = 0 THEN Done(op, n, -1, {}, f, o)
                      ELSE IF op \in {"flush", "cb"}
                      THEN Done(op, n, 0, {}, f, o)
                      ELSE [c EXCEPT !.pc = "taken", !.filt = filt, !.cur = 0,
                                     !.fault = f, !.obs = o]
       IN  IF dangling
           THEN \E u \in {"segv", "miss", "stale"} :
                  /\ crashed' = IF u = "segv" THEN "freed" ELSE "no"
                  /\ cl' = IF u = "segv" THEN cl
                           ELSE [cl EXCEPT ![t] =
                                    IF u = "miss"
                                    THEN Done(op, n, -1, {}, TRUE, o)
                                    ELSE next(TRUE)]
                  /\ versions' = IF u # "segv" /\ VLive(v)
                                 THEN MarkHot(versions, v) ELSE versions
           ELSE /\ versions' = MarkHot(versions, v)
                /\ cl' = [cl EXCEPT ![t] = next(FALSE)]
                /\ UNCHANGED crashed
    /\ UNCHANGED <<load, wrappers, latest, write_lock, disk, vac, should_run,
                   mgr_freed, est>>

\* The holders of a wrapper's rwlock.
Readers(w) == {u \in Clients : cl[u].pc = "rdlocked" /\ cl[u].filt = w}
Writers(w) == {u \in Clients : cl[u].pc = "wrlocked" /\ cl[u].filt = w}

\* The use of a freed wrapper: the process dies, or the call goes on with
\* whatever the memory holds and returns 0.
UseFreed(t, op) ==
    \E u \in {"segv", "garbage"} :
       /\ crashed' = IF u = "segv" THEN "freed" ELSE "no"
       /\ cl' = IF u = "segv" THEN cl
                ELSE [cl EXCEPT ![t] =
                        Done(op, wrappers[cl[t].filt].name, 0, {}, TRUE,
                             cl[t].obs)]

\* After take: pthread_rwlock_rdlock for check_keys, pthread_rwlock_wrlock
\* for set_keys and for unmap_filter, which returns 0 at once when the
\* filter is in_memory.
Use(t) ==
    /\ Ready
    /\ cl[t].pc = "taken"
    /\ \E op \in load.reads \cap {"check", "set", "unmap"} :
       LET c == cl[t]
           w == c.filt
       IN  IF ~WLive(w) THEN UseFreed(t, op)
           ELSE /\ UNCHANGED crashed
                /\ \E in_memory \in BOOLEAN :
                     /\ op # "unmap" => in_memory = FALSE
                     /\ ~in_memory => Writers(w) = {}
                     /\ (~in_memory /\ op # "check") => Readers(w) = {}
                     /\ cl' = [cl EXCEPT ![t] =
                                 IF in_memory
                                 THEN Done(op, wrappers[w].name, 0, {},
                                           c.fault, c.obs)
                                 ELSE [c EXCEPT !.op = op,
                                         !.pc = IF op = "check" THEN "rdlocked"
                                                ELSE "wrlocked"]]
    /\ UNCHANGED <<load, versions, wrappers, latest, write_lock, disk, vac,
                   should_run, mgr_freed, est>>

\* The engine faulted in by a lookup that leaves the wrapper's flag alone.
TouchNot(ws, w) == [ws EXCEPT ![w].proxied = FALSE]

\* check_keys / set_keys: bloomf_contains or bloomf_add (a proxied filter is
\* faulted in) and `filt->is_hot = 1`.
Touch(ws, w) == [ws EXCEPT ![w].is_hot = TRUE, ![w].proxied = FALSE]

\* Under the rwlock: bloomf_contains / bloomf_add per key (the engine may
\* fail: -2), `filt->is_hot = 1`, unlock; or bloomf_close for unmap_filter.
\* contains and add fault a proxied filter back in; close proxies it.
Body(t) ==
    /\ Ready
    /\ cl[t].pc \in {"rdlocked", "wrlocked"}
    /\ LET c == cl[t]
           w == c.filt
       IN  IF ~WLive(w) THEN UseFreed(t, c.op) /\ UNCHANGED wrappers
           ELSE /\ UNCHANGED crashed
                /\ \E err \in BOOLEAN :
                     /\ c.op = "unmap" => err = FALSE
                     /\ cl' = [cl EXCEPT ![t] =
                                 Done(c.op, wrappers[w].name,
                                      IF err THEN -2 ELSE 0, {}, c.fault, c.obs)]
                /\ wrappers' = IF c.op = "unmap"
                               THEN [wrappers EXCEPT ![w].proxied = TRUE]
                               ELSE Touch(wrappers, w)
    /\ UNCHANGED <<load, versions, latest, write_lock, disk, vac, should_run,
                   mgr_freed, est>>

\* filter_map_list_cb over the index: the names of the active wrappers.
filter_map_list(v) ==
    {n \in Names : LET w == versions[v].filter_map[n]
                   IN  w # 0 /\ wrappers[w].is_active}

\* filter_map_list_cold_cb over the index: a hot wrapper is skipped (and
\* lowered, see ColdLowered), a cold one is emitted unless it is proxied.
filter_map_list_cold(v) ==
    {n \in Names : LET w == versions[v].filter_map[n]
                   IN  w # 0 /\ ~wrappers[w].is_hot /\ ~wrappers[w].proxied}

\* filter_map_list_cold_cb's side effect: `filt->is_hot = 0` on every hot
\* wrapper of the index.
ColdLowered(v) ==
    [w \in DOMAIN wrappers |->
        IF \E n \in Names : versions[v].filter_map[n] = w
        THEN [wrappers[w] EXCEPT !.is_hot = FALSE] ELSE wrappers[w]]

\* list_filters / list_cold_filters: `current->is_hot = 1;` and hashmap_iter.
\* Over freed memory the process dies or the list holds anything.
List(t) ==
    /\ Ready
    /\ cl[t].pc = "loaded"
    /\ \E op \in load.lists :
       LET c == cl[t]
           v == c.cur
           dangling == ~VLive(v) \/ \E n \in Names :
                          LET w == versions[v].filter_map[n]
                          IN  w # 0 /\ ~WLive(w)
       IN  IF dangling
           THEN /\ \E segv \in BOOLEAN : \E l \in SUBSET Names :
                     /\ segv => l = {}
                     /\ crashed' = IF segv THEN "freed" ELSE "no"
                     /\ cl' = IF segv THEN cl
                              ELSE [cl EXCEPT ![t] =
                                      Done(op, NoName, 0, l, TRUE, c.obs)]
                     /\ versions' = IF ~segv /\ VLive(v)
                                    THEN MarkHot(versions, v) ELSE versions
                /\ UNCHANGED wrappers
           ELSE /\ versions' = MarkHot(versions, v)
                /\ cl' = [cl EXCEPT ![t] =
                            Done(op, NoName, 0,
                                 IF op = "list" THEN filter_map_list(v)
                                 ELSE filter_map_list_cold(v), FALSE, c.obs)]
                /\ wrappers' = IF op = "cold" THEN ColdLowered(v)
                               ELSE wrappers
                /\ UNCHANGED crashed
    /\ UNCHANGED <<load, latest, write_lock, disk, vac, should_run, mgr_freed, est>>

\* The call has returned; the thread is free for its next call.
Return(t) ==
    /\ Running
    /\ cl[t].pc = "done"
    /\ cl' = [cl EXCEPT ![t] = IdleClient]
    /\ UNCHANGED <<load, versions, wrappers, latest, write_lock, disk, vac,
                   should_run, crashed, mgr_freed, est>>

-----------------------------------------------------------------------------
\* Destructive operations: create_filter, drop_filter, clear_filter.

\* A call that started while est[n] was `from` is now concurrent with a
\* create/drop/clear on n: nothing was promised to it (history).
Disturb(n, from) ==
    [u \in Clients |->
        [cl[u] EXCEPT !.obs[n] = IF @ = from THEN "none" ELSE @]]

\* pthread_mutex_lock(&mgr->write_lock), the first statement of the three.
\* Every call that goes on to publish a version takes one of the
\* MaxVersions slots.  No call starts once shutdown has begun.
Lock(t) ==
    /\ Ready
    /\ should_run
    /\ cl[t].pc = "idle"
    /\ write_lock = 0
    /\ Len(versions) < 1 + MaxVersions
    /\ cl' = [cl EXCEPT ![t] = [IdleClient EXCEPT !.pc = "locked"]]
    /\ write_lock' = t
    /\ UNCHANGED <<load, versions, wrappers, latest, disk, vac, should_run, crashed,
                   mgr_freed, est>>

\* A destructive call returns r: pthread_mutex_unlock and return.
Unlock(c, t, op, n, r) ==
    /\ cl' = [c EXCEPT ![t] = Done(op, n, r, {}, FALSE, About(est, n))]
    /\ write_lock' = 0

\* create_filter's existence check with the check left out.
CreateRefusedNever(v, n) == FALSE

\* create_filter's `hashmap_get(latest->filter_map, ...); if (filt)`.
CreateRefused(v, n) == hashmap_get(versions[v].filter_map, n) # 0

\* create_filter under the mutex.  create_new_version returns NULL when the
\* map cannot be built (new_fails) and add_filter dereferences it; add_filter
\* fails when the engine or the map insert fails (add_fails), and the new
\* version is destroyed at once.
CreateBody(t) ==
    /\ Ready
    /\ cl[t].pc = "locked"
    /\ \E n \in load.names :
       LET vs1 == MarkHot(versions, latest)
           new == create_new_version(vs1, latest)
           wid == Len(wrappers) + 1
       IN  IF CreateRefused(latest, n)
           THEN /\ versions' = vs1
                /\ Unlock(cl, t, "create", n, -1)
                /\ UNCHANGED <<wrappers, latest, disk, crashed, est>>
           ELSE \E new_fails \in BOOLEAN : \E add_fails \in BOOLEAN :
                IF new_fails
                THEN /\ versions' = vs1
                     /\ crashed' = "new_vsn"
                     /\ disk' = IF add_fails THEN disk
                                ELSE [disk EXCEPT ![n] = TRUE]
                     /\ UNCHANGED <<wrappers, latest, cl, write_lock, est>>
                ELSE IF add_fails
                THEN /\ versions' = vs1
                     /\ Unlock(cl, t, "create", n, -2)
                     /\ UNCHANGED <<wrappers, latest, disk, crashed, est>>
                ELSE /\ wrappers' = Append(wrappers, NewWrapper(n, TRUE, FALSE))
                     /\ versions' = Append(vs1,
                           [new EXCEPT !.filter_map = hashmap_put(@, n, wid)])
                     /\ latest' = Len(versions) + 1
                     /\ disk' = [disk EXCEPT ![n] = TRUE]
                     /\ est' = [est EXCEPT ![n] = "present"]
                     /\ Unlock(Disturb(n, "absent"), t, "create", n, 0)
                     /\ UNCHANGED crashed
    /\ UNCHANGED <<load, vac, should_run, mgr_freed>>

\* drop_filter's `filt->should_delete = 1`.
DropShouldDelete == TRUE

\* clear_filter marking the wrapper for deletion as drop_filter does.
ClearShouldDeleteSet == TRUE

\* clear_filter's `filt->should_delete = 0`.
ClearShouldDelete == FALSE

\* clear_filter's proxied check left out.
ClearRefusedNever(w) == FALSE

\* clear_filter's `if (!bloomf_is_proxied(filt->filter))`.
ClearRefused(w) == ~wrappers[w].proxied

\* The new index built without removing the name.
RemoveNothing(map, n) == map

\* hashmap_delete(new_vsn->filter_map, filter_name)
RemoveFromNew(map, n) == hashmap_delete(map, n)

\* The wrapper left active by the operation that removes it.
DeactivateNot(ws, filt, sd) == [ws EXCEPT ![filt].should_delete = sd]

\* `filt->is_active = 0; filt->should_delete = ...;`
Deactivate(ws, filt, sd) ==
    [ws EXCEPT ![filt].is_active = FALSE, ![filt].should_delete = sd]

\* The wrapper parked and also taken out of the published index.
ParkAndUnindex(vs, v, filt, n) ==
    [vs EXCEPT ![v].deleted = filt, ![v].filter_map[n] = 0]

\* The wrapper not parked at all.
ParkNothing(vs, v, filt, n) == vs

\* `current->deleted = filt;`: the published version's index is left alone.
Park(vs, v, filt, n) == [vs EXCEPT ![v].deleted = filt]

\* The common part of drop_filter and clear_filter once take_filter has
\* returned filt: deactivate, build the new version without the name, park
\* the wrapper in current->deleted, publish, unlock.  create_new_version's
\* NULL (new_fails) is dereferenced by hashmap_delete.
Remove(t, op, n, filt, sd) ==
    LET vs1 == MarkHot(versions, latest)
        ws1 == Deactivate(wrappers, filt, sd)
        new == create_new_version(vs1, latest)
    IN  \E new_fails \in BOOLEAN :
           IF new_fails
           THEN /\ versions' = vs1
                /\ wrappers' = ws1
                /\ crashed' = "new_vsn"
                /\ UNCHANGED <<latest, cl, write_lock, est>>
           ELSE /\ wrappers' = [ws1 EXCEPT ![filt].how = op]
                /\ versions' = Append(Park(vs1, latest, filt, n),
                       [new EXCEPT !.filter_map = RemoveFromNew(@, n)])
                /\ latest' = Len(versions) + 1
                /\ est' = [est EXCEPT ![n] = "absent"]
                /\ Unlock(Disturb(n, "present"), t, op, n, 0)
                /\ UNCHANGED crashed

\* A drop or clear refused with return code r: unlock and return.
Refuse(t, op, n, r) ==
    /\ versions' = MarkHot(versions, latest)
    /\ Unlock(cl, t, op, n, r)
    /\ UNCHANGED <<wrappers, latest, crashed, est>>

\* drop_filter under the mutex.
DropBody(t) ==
    /\ Ready
    /\ cl[t].pc = "locked"
    /\ \E n \in load.names :
       LET filt == take_filter(latest, n)
       IN  IF filt = 0 THEN Refuse(t, "drop", n, -1)
           ELSE Remove(t, "drop", n, filt, DropShouldDelete)
    /\ UNCHANGED <<load, disk, vac, should_run, mgr_freed>>

\* clear_filter under the mutex.
ClearBody(t) ==
    /\ Ready
    /\ cl[t].pc = "locked"
    /\ \E n \in load.names :
       LET filt == take_filter(latest, n)
       IN  IF filt = 0 THEN Refuse(t, "clear", n, -1)
           ELSE IF ClearRefused(filt) THEN Refuse(t, "clear", n, -2)
           ELSE Remove(t, "clear", n, filt, ClearShouldDelete)
    /\ UNCHANGED <<load, disk, vac, should_run, mgr_freed>>

-----------------------------------------------------------------------------
\* The vacuum thread: filtmgr_thread_main and clean_old_versions.
\* vac.cycles is history: the lower-and-sleep rounds done so far on the
\* version being cleaned.

\* clean_old_versions recurses to old->prev before it does anything else:
\* the frames of the recursion, the oldest version first.
RECURSIVE Chain(_, _)
Chain(vs, v) == IF v = 0 THEN <<>> ELSE Append(Chain(vs, vs[v].prev), v)

\* The cleaning started at the loaded version itself.
CleanFromSelf(v) == v

\* The argument of clean_old_versions: `current->prev`.
CleanFrom(v) == versions[v].prev

\* One round of `while (*should_run)`: sleep(1), load mgr->latest, and when
\* its vsn differs from last_vsn call clean_old_versions(current->prev),
\* which dereferences its argument.
VacTick ==
    /\ Ready
    /\ vac.pc = "loop"
    /\ IF ~should_run
       THEN vac' = [vac EXCEPT !.pc = "exited"] /\ UNCHANGED crashed
       ELSE IF versions[latest].vsn = vac.last_vsn
       THEN UNCHANGED <<vac, crashed>>
       ELSE IF versions[latest].prev = 0
       THEN crashed' = "old" /\ UNCHANGED vac
       ELSE /\ vac' = [pc |-> "clean", last_vsn |-> versions[latest].vsn,
                       current |-> latest,
                       stack |-> Chain(versions, CleanFrom(latest)),
                       cycles |-> 0]
            /\ UNCHANGED crashed
    /\ UNCHANGED <<load, versions, wrappers, latest, write_lock, disk, cl,
                   should_run, mgr_freed, est>>

\* The return from a frame with the prev link of current left in place.
PopKeepPrev(vs) ==
    /\ versions' = vs
    /\ vac' = IF Len(vac.stack) = 1
              THEN [vac EXCEPT !.pc = "loop", !.stack = <<>>, !.current = 0,
                               !.cycles = 0]
              ELSE [vac EXCEPT !.pc = "clean", !.stack = Tail(@),
                               !.cycles = 0]

\* clean_old_versions returns from the frame of Head(vac.stack); after the
\* outermost frame filtmgr_thread_main does `current->prev = NULL`.
Pop(vs) ==
    IF Len(vac.stack) = 1
    THEN /\ versions' = [vs EXCEPT ![vac.current].prev = 0]
         /\ vac' = [vac EXCEPT !.pc = "loop", !.stack = <<>>, !.current = 0,
                               !.cycles = 0]
    ELSE /\ versions' = vs
         /\ vac' = [vac EXCEPT !.pc = "clean", !.stack = Tail(@),
                               !.cycles = 0]

\* `if (!*should_run) return 0;` and the first `old->is_hot = 0;` before
\* sleep(VERSION_COOLDOWN).
VacLower ==
    /\ Ready
    /\ vac.pc = "clean"
    /\ LET old == Head(vac.stack)
       IN  IF ~should_run THEN Pop(versions)
           ELSE /\ versions' = [versions EXCEPT ![old].is_hot = FALSE]
                /\ vac' = [vac EXCEPT !.pc = "cooldown", !.cycles = 1]
    /\ UNCHANGED <<load, wrappers, latest, write_lock, disk, cl, should_run,
                   crashed, mgr_freed, est>>

\* The loop condition taken as false whatever the flag.
StillHotNever(old) == FALSE

\* The loop condition `old->is_hot` read when the cooldown ends.
StillHot(old) == versions[old].is_hot

\* The cooldown ends: `while (*should_run && old->is_hot)` lowers is_hot and
\* sleeps again; `if (!*should_run) return 0;`; else delete_filter on
\* old->deleted and destroy_version(old).
VacWake ==
    /\ Ready
    /\ vac.pc = "cooldown"
    /\ LET old == Head(vac.stack)
           del == versions[old].deleted
       IN  IF should_run /\ StillHot(old)
           THEN /\ versions' = [versions EXCEPT ![old].is_hot = FALSE]
                /\ vac' = [vac EXCEPT !.cycles = IF @ < MaxCycles THEN @ + 1
                                                 ELSE @]
                /\ UNCHANGED <<wrappers, disk>>
           ELSE IF ~should_run
           THEN Pop(versions) /\ UNCHANGED <<wrappers, disk>>
           ELSE /\ wrappers' = IF del # 0 THEN delete_filter(wrappers, del)
                               ELSE wrappers
                /\ disk' = IF del # 0 THEN DiskAfterDelete(disk, wrappers, del)
                           ELSE disk
                /\ Pop(destroy_version(versions, old))
    /\ UNCHANGED <<load, latest, write_lock, cl, should_run, crashed, mgr_freed, est>>

-----------------------------------------------------------------------------
\* Shutdown.

\* The owner of the stop flag clears it.
Stop ==
    /\ Ready
    /\ should_run
    /\ should_run' = FALSE
    /\ UNCHANGED <<load, versions, wrappers, latest, write_lock, disk, cl, vac,
                   crashed, mgr_freed, est>>

\* filter_map_delete_cb over the latest index: should_delete = 0 and
\* delete_filter on every wrapper in it.
DeleteIndexed(ws, map) ==
    [w \in DOMAIN ws |->
        IF \E n \in Names : map[n] = w
        THEN delete_filter([ws EXCEPT ![w].should_delete = FALSE], w)[w]
        ELSE ws[w]]

\* destroy_filter_manager's walk from mgr->latest along prev:
\* delete_filter on vsn->deleted, then destroy_version.  The result is the
\* versions, the wrappers and the data directory after the walk.
RECURSIVE DestroyWalk(_, _, _, _)
DestroyWalk(vs, ws, d, v) ==
    IF v = 0 THEN [vs |-> vs, ws |-> ws, d |-> d]
    ELSE LET del == vs[v].deleted
         IN  DestroyWalk(destroy_version(vs, v),
                         IF del # 0 THEN delete_filter(ws, del) ELSE ws,
                         IF del # 0 THEN DiskAfterDelete(d, ws, del) ELSE d,
                         vs[v].prev)

\* destroy_filter_manager, called once the worker is joined and no client
\* is inside a call.
Destroy ==
    /\ Ready
    /\ vac.pc = "exited"
    /\ \A t \in Clients : cl[t].pc = "idle"
    /\ LET r == DestroyWalk(versions,
                   DeleteIndexed(wrappers, versions[latest].filter_map),
                   disk, latest)
       IN  /\ versions' = r.vs
           /\ wrappers' = r.ws
           /\ disk' = r.d
    /\ mgr_freed' = TRUE
    /\ UNCHANGED <<load, latest, write_lock, cl, vac, should_run, crashed, est>>

-----------------------------------------------------------------------------
Next ==
    \/ \E t \in Clients : Start(t)
    \/ \E t \in Clients : Take(t)
    \/ \E t \in Clients : Use(t)
    \/ \E t \in Clients : Body(t)
    \/ \E t \in Clients : List(t)
    \/ \E t \in Clients : Return(t)
    \/ \E t \in Clients : Lock(t)
    \/ \E t \in Clients : CreateBody(t)
    \/ \E t \in Clients : DropBody(t)
    \/ \E t \in Clients : ClearBody(t)
    \/ VacTick
    \/ VacLower
    \/ VacWake
    \/ Stop
    \/ Destroy

InitCore == Init /\ load = CoreLoad
InitAll  == Init /\ load = AllLoad

Spec == InitCore /\ [][Next]_vars

SpecAll == InitAll /\ [][Next]_vars

-----------------------------------------------------------------------------
\* Properties.

\* C1: a call that starts after create_filter(n) returned 0, and before a
\* later successful drop or clear of n, finds n (list_filters includes it,
\* flush / check_keys / set_keys do not return -1); a call that starts after
\* drop_filter(n) or clear_filter(n) returned 0, and before a later
\* successful create of n, does not find it (list_filters omits it, the
\* named operations return -1).
C1_Visibility ==
    \A t \in Clients : cl[t].pc = "done" =>
        LET c == cl[t]
        IN  /\ c.op \in {"flush", "check", "set"} =>
                 (c.obs[c.arg] = "present" => c.ret # -1)
            /\ c.op \in {"flush", "check", "set", "unmap"} =>
                 (c.obs[c.arg] = "absent" => c.ret = -1)
            /\ c.op = "list" =>
                 \A n \in Names : /\ c.obs[n] = "present" => n \in c.out
                                  /\ c.obs[n] = "absent" => n \notin c.out

\* C2: no client holds a version pointer, a wrapper obtained through take,
\* or a wrapper's rwlock at a moment when that version or wrapper has been
\* destroyed, and no call ever reads destroyed memory.
C2_NoUseAfterDestroy ==
    \A t \in Clients :
        /\ cl[t].pc = "loaded" => VLive(cl[t].cur)
        /\ cl[t].pc \in {"taken", "rdlocked", "wrlocked"} => WLive(cl[t].filt)
        /\ ~cl[t].fault
        /\ crashed # "freed"

\* A destructive call's step under the mutex ends in its return.
Returns(t, op) ==
    cl[t].pc = "locked" /\ cl'[t].pc = "done" /\ cl'[t].op = op

\* What a refused destructive call leaves alone: the latest pointer and its
\* vsn, the number of versions, the wrappers, the names list_filters gives;
\* and the mutex is free.
Frame ==
    /\ latest' = latest
    /\ versions'[latest'].vsn = versions[latest].vsn
    /\ Len(versions') = Len(versions)
    /\ wrappers' = wrappers
    /\ {n \in Names : LET w == versions'[latest'].filter_map[n]
                      IN  w # 0 /\ wrappers'[w].is_active}
         = filter_map_list(latest)
    /\ write_lock' = 0

\* C3: create_filter(n) returns -1 exactly when n is in the latest index
\* while the mutex is held; it then publishes nothing and releases the
\* mutex; so a create of a name whose last destructive call was a
\* successful create returns -1.
C3_CreateExists ==
    [][\A t \in Clients : Returns(t, "create") =>
          LET n == cl'[t].arg
          IN  /\ cl'[t].ret = -1 <=> versions[latest].filter_map[n] # 0
              /\ cl'[t].ret = -1 => Frame
              /\ est[n] = "present" => cl'[t].ret = -1]_vars

\* create_filter(n) has returned -1 on a name created before.
C3_Witness ==
    \E t \in Clients : /\ cl[t].pc = "done" /\ cl[t].op = "create"
                       /\ cl[t].ret = -1 /\ cl[t].obs[cl[t].arg] = "present"

\* C4: drop_filter(n) on a name whose last destructive call was a successful
\* drop returns -1, and create_filter(n) on such a name is not refused: it
\* returns 0 (or -2 when the wrapper cannot be built), whatever the vacuum
\* has done so far.
C4_DropThenCreate ==
    \A t \in Clients : (/\ cl[t].pc = "done" /\ cl[t].op \in {"drop", "create"}
                         /\ cl[t].obs[cl[t].arg] = "absent") =>
        /\ cl[t].op = "drop" => cl[t].ret = -1
        /\ cl[t].op = "create" => cl[t].ret \in {0, -2}

\* create_filter(n) has returned 0 while the wrapper dropped under that name
\* is still parked, not yet destroyed by the vacuum.
C4_Witness ==
    \E t \in Clients : \E w \in DOMAIN wrappers :
        /\ cl[t].pc = "done" /\ cl[t].op = "create" /\ cl[t].ret = 0
        /\ cl[t].obs[cl[t].arg] = "absent"
        /\ wrappers[w].name = cl[t].arg /\ wrappers[w].how = "drop" /\ WLive(w)

\* C5: clear_filter(n) on an active filter that is not proxied returns -2,
\* on a missing filter -1; either way the wrappers (is_active and
\* should_delete with them), latest, its vsn and the listed names are
\* unchanged and the mutex is released.
C5_ClearRefused ==
    [][\A t \in Clients : Returns(t, "clear") =>
          LET filt == take_filter(latest, cl'[t].arg)
          IN  /\ (filt # 0 /\ ~wrappers[filt].proxied) =>
                    (cl'[t].ret = -2 /\ Frame)
              /\ filt = 0 => (cl'[t].ret = -1 /\ Frame)]_vars

\* clear_filter has returned -2 on a filter that is listed.
C5_Witness ==
    \E t \in Clients : /\ cl[t].pc = "done" /\ cl[t].op = "clear"
                       /\ cl[t].ret = -2
                       /\ cl[t].arg \in filter_map_list(latest)

\* C6: bloomf_delete is run only on a wrapper removed by a successful
\* drop_filter; a wrapper removed by clear_filter, and every wrapper in the
\* latest index at destroy_filter_manager, is destroyed by bloomf_close.
C6_DeleteOnlyDropped ==
    /\ \A w \in DOMAIN wrappers :
          /\ wrappers[w].fate = "deleted" => wrappers[w].how = "drop"
          /\ (wrappers[w].how = "clear" /\ ~WLive(w)) =>
                wrappers[w].fate = "closed"
    /\ mgr_freed =>
          \A n \in Names : LET w == versions[latest].filter_map[n]
                           IN  w # 0 => wrappers[w].fate = "closed"

\* A cleared wrapper has been destroyed, and the manager torn down with a
\* filter still in its index.
C6_Witness ==
    /\ \E w \in DOMAIN wrappers : wrappers[w].how = "clear" /\ ~WLive(w)
    /\ mgr_freed
    /\ \E n \in Names : versions[latest].filter_map[n] # 0

\* C7: a destructive call whose new version or new wrapper cannot be built
\* returns an error and changes nothing that is published: the call does not
\* die on the version it failed to build, a wrapper is deactivated only by a
\* call that returned 0, and a call that has returned holds no mutex.
C7_FailedBuildReturns ==
    /\ crashed # "new_vsn"
    /\ \A w \in DOMAIN wrappers :
          ~wrappers[w].is_active => wrappers[w].how # "none"
    /\ \A t \in Clients :
          (cl[t].pc = "done" /\ cl[t].op \in WriteOps) => write_lock # t

\* The wrappers init_filter_manager found in the data directory.
Discovered == {versions[1].filter_map[n] : n \in Names} \ {0}

\* C8: a list_cold_filters call emits exactly the wrappers of its version
\* that are cold and not proxied, and lowers is_hot on the hot ones; and a
\* filter discovered at init that the call on the latest version has just
\* emitted is not emitted by a call made right after it.
C8_ListCold ==
    [][\A t \in Clients :
          (/\ cl[t].pc = "loaded" /\ cl'[t].pc = "done"
           /\ cl'[t].op = "cold" /\ ~cl'[t].fault) =>
          LET map == versions[cl[t].cur].filter_map
          IN  /\ cl'[t].out = {n \in Names : /\ map[n] # 0
                                             /\ ~wrappers[map[n]].is_hot
                                             /\ ~wrappers[map[n]].proxied}
              /\ \A n \in Names : map[n] # 0 => ~wrappers'[map[n]].is_hot
              /\ cl[t].cur = latest =>
                    \A n \in cl'[t].out :
                        map[n] \in Discovered =>
                           ~(/\ ~wrappers'[map[n]].is_hot
                             /\ ~wrappers'[map[n]].proxied)]_vars

\* C9: once destroy_filter_manager has run, every version is destroyed and
\* every wrapper parked in a version's deleted slot is destroyed.
C9_ShutdownComplete ==
    mgr_freed =>
        \A v \in DOMAIN versions :
            /\ ~VLive(v)
            /\ versions[v].deleted # 0 => ~WLive(versions[v].deleted)

\* The wrappers not yet destroyed that are active under name n.
ActiveFor(n) ==
    {w \in DOMAIN wrappers :
        WLive(w) /\ wrappers[w].is_active /\ wrappers[w].name = n}

\* C11: for every name there is at most one active wrapper among the
\* wrappers not yet destroyed, whatever the versions that still hold them.
C11_OneActive == \A n \in Names : Cardinality(ActiveFor(n)) <= 1

\* Two wrappers of one name exist, both not yet destroyed: the dropped one,
\* still parked, and the one created after it.
C11_Witness ==
    \E w1, w2 \in DOMAIN wrappers :
        /\ w1 # w2 /\ wrappers[w1].name = wrappers[w2].name
        /\ WLive(w1) /\ WLive(w2)
        /\ ~wrappers[w1].is_active /\ wrappers[w2].is_active

-----------------------------------------------------------------------------
\* Liveness.

\* A call that has started goes on to its return unless it is blocked.
ClientStep(t) ==
    \/ Take(t) \/ List(t) \/ Use(t) \/ Body(t) \/ Return(t)
    \/ CreateBody(t) \/ DropBody(t) \/ ClearBody(t)

\* The scheduler is fair to the vacuum thread and to every client thread.
\* No thread waits for another but at a lock; a step that is only put off
\* while some call hands back its result (Ready) is therefore taken: the
\* fairness is strong.
Fair ==
    /\ SF_vars(VacTick) /\ SF_vars(VacLower) /\ SF_vars(VacWake)
    /\ \A t \in Clients : SF_vars(ClientStep(t))

SpecLive == InitCore /\ [][Next]_vars /\ Fair

\* Only latest is left: its prev is NULL, every other version is destroyed
\* and so is every wrapper parked in a deleted slot.
Reclaimed ==
    /\ versions[latest].prev = 0
    /\ \A v \in DOMAIN versions :
          /\ v # latest => ~VLive(v)
          /\ versions[v].deleted # 0 => ~WLive(versions[v].deleted)

\* C10: when the stop flag is never cleared and from some point on no
\* create, drop or clear is executed, eventually only latest is left and
\* everything older has been destroyed.
C10_Reclamation ==
    ([]should_run /\ <>[](write_lock = 0)) => <>[]Reclaimed

-----------------------------------------------------------------------------
\* Properties of the version chain and of the flags.

\* A create, drop or clear returns 0 in this step.
SuccessfulWrite ==
    \E t \in Clients :
        cl[t].pc = "locked" /\ cl'[t].pc = "done" /\ cl'[t].ret = 0

\* C12: latest.vsn grows by exactly 1 in a step in which a create, drop or
\* clear returns 0 and is unchanged by every other step (refused or failed
\* destructive calls, read-side steps, vacuum steps); it is 0 at first and
\* always the number of versions published since.
C12_VsnCounts ==
    [][/\ versions'[latest'].vsn
            = versions[latest].vsn + (IF SuccessfulWrite THEN 1 ELSE 0)
       /\ versions[latest].vsn = Len(versions) - 1
       /\ versions'[latest'].vsn = Len(versions') - 1]_vars

\* Two destructive calls have returned 0 and latest.vsn is 2.
C12_Witness ==
    /\ versions[latest].vsn = 2
    /\ \E t \in Clients : /\ cl[t].pc = "done" /\ cl[t].op \in WriteOps
                           /\ cl[t].ret = 0

\* The clients whose step mutates the engine of wrapper w: the return of
\* set_keys (bloomf_add) or of unmap_filter (bloomf_close) from under the
\* rwlock.
Mutators(w) ==
    {t \in Clients : /\ cl[t].filt = w
                     /\ cl[t].pc \in {"rdlocked", "wrlocked"}
                     /\ cl'[t].pc = "done" /\ cl'[t].op \in {"set", "unmap"}}

\* C13: a step that mutates a wrapper's engine is taken with that wrapper's
\* rwlock held for writing and overlaps no other holder of the rwlock: a
\* client mutator is the only holder, and when delete_filter closes or
\* deletes the engine no client holds the rwlock.
C13_EngineUnderWrlock ==
    [][\A w \in DOMAIN wrappers :
          /\ \A t \in Mutators(w) :
                /\ cl[t].pc = "wrlocked"
                /\ Readers(w) \cup Writers(w) = {t}
          /\ (WLive(w) /\ wrappers'[w].fate # "live") =>
                Readers(w) \cup Writers(w) = {}]_vars

\* The vacuum (not destroy_filter_manager) destroys version v in this step.
Retires(v) == VLive(v) /\ ~versions'[v].live /\ ~mgr_freed'

\* C14: the vacuum destroys a version only at the end of a cooldown that
\* followed its lowering of is_hot, with is_hot still false, and the parked
\* wrapper only together with its version; if is_hot was raised during the
\* cooldown the version survives the round and the vacuum lowers the flag
\* and waits again.
C14_ColdAfterCooldown ==
    [][/\ \A v \in DOMAIN versions :
            /\ Retires(v) =>
                  /\ vac.pc = "cooldown" /\ Head(vac.stack) = v
                  /\ vac.cycles >= 1
                  /\ ~versions[v].is_hot
                  /\ versions[v].deleted # 0 =>
                        wrappers'[versions[v].deleted].fate # "live"
            /\ (/\ vac.pc = "cooldown" /\ Head(vac.stack) = v
                /\ versions[v].is_hot) =>
                  /\ versions'[v].live
                  /\ ~versions'[v].is_hot =>
                        /\ vac'.pc = "cooldown" /\ Head(vac'.stack) = v
                        /\ vac'.cycles > vac.cycles \/ vac.cycles = MaxCycles
       /\ \A w \in DOMAIN wrappers :
            (WLive(w) /\ wrappers'[w].fate # "live" /\ ~mgr_freed') =>
               \E v \in DOMAIN versions :
                   versions[v].deleted = w /\ Retires(v)]_vars

\* The vacuum has destroyed a version and is in its second cooldown on
\* another one, whose is_hot was raised during the first.
C14_Witness ==
    /\ ~mgr_freed
    /\ vac.pc = "cooldown" /\ vac.cycles = 2
    /\ \E v \in DOMAIN versions : ~VLive(v)

\* C15: the vacuum destroys no version after a single lower / wait / check
\* round: at least two cooldowns have passed on it.
C15_TwoCooldowns ==
    [][\A v \in DOMAIN versions : Retires(v) => vac.cycles >= 2]_vars

\* C16: a client step that reads the index of the version it loaded (the
\* lookup or the iteration of a read-side call, the body of a destructive
\* call) leaves that version's is_hot true, and a version's is_hot is
\* lowered only by a step of the vacuum on the version it is cleaning.
C16_ClientsRaise ==
    [][/\ \A t \in Clients :
            /\ (/\ cl[t].pc = "loaded" /\ cl'[t].pc # "loaded"
                /\ VLive(cl[t].cur)) => versions'[cl[t].cur].is_hot
            /\ (/\ cl[t].pc = "locked"
                /\ cl'[t].pc = "done" \/ crashed' = "new_vsn") =>
                  versions'[latest].is_hot
       /\ \A v \in DOMAIN versions :
            (versions[v].is_hot /\ ~versions'[v].is_hot /\ versions'[v].live) =>
               /\ cl' = cl
               /\ vac.pc \in {"clean", "cooldown"} /\ Head(vac.stack) = v]_vars

\* A client has raised is_hot on an old version during the vacuum's
\* cooldown on it.
C16_Witness ==
    /\ vac.pc = "cooldown"
    /\ versions[Head(vac.stack)].is_hot
    /\ \E t \in Clients : cl[t].pc = "done" /\ cl[t].op \in NamedReadOps

\* The wrapper the call of client t obtained through take_filter.
Taken(t) ==
    IF cl[t].pc = "loaded" THEN take_filter(cl[t].cur, cl'[t].arg)
    ELSE cl[t].filt

\* Client t's call returns 0 in this step and the wrapper it took still
\* exists.
Succeeds(t) ==
    /\ cl[t].pc \in {"loaded", "taken", "rdlocked", "wrlocked"}
    /\ cl'[t].pc = "done" /\ cl'[t].ret = 0
    /\ cl'[t].op \in NamedReadOps
    /\ wrappers'[Taken(t)].fate = "live"

\* C17 as claimed: after a successful check_keys, set_keys, flush,
\* unmap_filter or filter_cb the wrapper it took has is_hot true.
C17_AccessRaises ==
    [][\A t \in Clients : Succeeds(t) => wrappers'[Taken(t)].is_hot]_vars

\* C17: a successful check_keys or set_keys leaves the wrapper's is_hot
\* true; a successful flush, unmap_filter or filter_cb leaves it as it was.
C17_OnlyKeysRaise ==
    [][\A t \in Clients : Succeeds(t) =>
          IF cl'[t].op \in {"check", "set"}
          THEN wrappers'[Taken(t)].is_hot
          ELSE wrappers'[Taken(t)].is_hot = wrappers[Taken(t)].is_hot]_vars

\* flush has returned 0 on a filter that is still cold and not proxied: a
\* list_cold_filters call made now reports it.
C17_Witness ==
    \E t \in Clients :
        /\ cl[t].pc = "done" /\ cl[t].op = "flush" /\ cl[t].ret = 0
        /\ ~cl[t].fault
        /\ cl[t].arg \in filter_map_list_cold(latest)
        /\ take_filter(latest, cl[t].arg) # 0

\* C18: the index of a version is the same before and after every step for
\* as long as the version exists, so a reader holding a stale version sees
\* the same entries; a destructive call that publishes a version changes,
\* against the index of the version it replaces, only the entry of its own
\* name, and only in the new version.
C18_IndexImmutable ==
    [][/\ \A v \in DOMAIN versions :
            (VLive(v) /\ versions'[v].live) =>
               versions'[v].filter_map = versions[v].filter_map
       /\ \A t \in Clients :
            (cl[t].pc = "locked" /\ cl'[t].pc = "done" /\ cl'[t].ret = 0) =>
               /\ latest' = Len(versions) + 1
               /\ \A m \in Names :
                     (versions'[latest'].filter_map[m]
                         # versions[latest].filter_map[m]) <=> m = cl'[t].arg]_vars

\* A reader holds a stale version, not yet destroyed, whose index differs
\* from the index of latest.
C18_Witness ==
    \E t \in Clients :
        /\ cl[t].pc = "loaded" /\ cl[t].cur # latest /\ VLive(cl[t].cur)
        /\ versions[cl[t].cur].filter_map # versions[latest].filter_map

\* The versions not yet destroyed whose index holds wrapper w.
Indexing(w) ==
    {v \in DOMAIN versions : VLive(v) /\ \E n \in Names :
                                            versions[v].filter_map[n] = w}

\* The versions not yet destroyed whose deleted slot holds wrapper w.
Parking(w) == {v \in DOMAIN versions : VLive(v) /\ versions[v].deleted = w}

RECURSIVE Reach(_)
Reach(v) ==
    IF v = 0 \/ ~VLive(v) THEN {} ELSE {v} \cup Reach(versions[v].prev)

\* C20: latest is one existing version, and every version created and not
\* yet destroyed is reached from latest along the prev links.
C20_ChainConnected ==
    /\ latest \in DOMAIN versions
    /\ \A v \in DOMAIN versions : VLive(v) => v \in Reach(latest)

-----------------------------------------------------------------------------
\* Properties of final destruction.

\* C21: the folder bloomd.<n> of a filter that is active in latest exists:
\* the deferred bloomf_delete of a wrapper dropped under name n removes
\* nothing that belongs to the filter created under n after the drop.
C21_LiveFilterOnDisk ==
    ~mgr_freed =>
        \A n \in Names : take_filter(latest, n) # 0 => disk[n]

\* C22: the vacuum destroys only versions strictly older than latest, and
\* only wrappers that are inactive; clean_old_versions is started on a
\* non-NULL version and never has latest among the versions it cleans; a
\* deleted slot is written only on the version that is latest, so never on
\* a version the vacuum is cleaning or has destroyed.
C22_VacuumBehindLatest ==
    [][/\ \A v \in DOMAIN versions :
            /\ Retires(v) =>
                  /\ v # latest
                  /\ versions[v].vsn < versions[latest].vsn
            /\ versions'[v].deleted # versions[v].deleted =>
                  /\ v = latest /\ VLive(v)
                  /\ \A i \in DOMAIN vac.stack : vac.stack[i] # v
       /\ \A w \in DOMAIN wrappers :
            (WLive(w) /\ wrappers'[w].fate # "live" /\ ~mgr_freed') =>
               ~wrappers[w].is_active
       /\ (vac.pc = "loop" /\ vac'.pc = "clean") => versions[latest].prev # 0
       /\ \A i \in DOMAIN vac'.stack :
            /\ vac'.stack[i] # 0
            /\ vac'.stack[i] # latest'
       /\ crashed' # "old"]_vars

\* The vacuum has destroyed a version and the wrapper parked in it, and
\* latest is two versions further on.
C22_Witness ==
    /\ ~mgr_freed
    /\ versions[latest].vsn = 2
    /\ \E v \in DOMAIN versions :
          /\ ~VLive(v) /\ versions[v].deleted # 0
          /\ wrappers[versions[v].deleted].fate # "live"

\* The versions of a walk are destroyed once each, and so are the wrappers
\* parked in them: every version of the walk is still allocated, so is every
\* parked wrapper, and no version and no parked wrapper occurs twice.
OnceEach(walk) ==
    \A i \in DOMAIN walk :
        LET v == walk[i]
        IN  /\ VLive(v)
            /\ versions[v].deleted # 0 => WLive(versions[v].deleted)
            /\ \A j \in DOMAIN walk :
                  j # i =>
                     /\ walk[j] # v
                     /\ versions[v].deleted # 0 =>
                           versions[walk[j]].deleted # versions[v].deleted

\* C23: no wrapper reaches delete_filter twice and no version reaches
\* destroy_version twice, and no prev link is followed to a destroyed
\* version: the versions the vacuum has descended to are allocated, distinct
\* and hold allocated, distinct parked wrappers; once the worker has exited,
\* the same holds of the walk of destroy_filter_manager from latest along
\* prev, and the wrappers indexed in latest are allocated and parked nowhere
\* on that walk.
C23_NoDoubleDestruction ==
    ~mgr_freed =>
        /\ OnceEach(vac.stack)
        /\ vac.pc = "exited" =>
              LET walk == Chain(versions, latest)
              IN  /\ OnceEach(walk)
                  /\ \A n \in Names :
                        LET w == versions[latest].filter_map[n]
                        IN  w # 0 =>
                              /\ WLive(w)
                              /\ \A i \in DOMAIN walk :
                                    versions[walk[i]].deleted # w

\* The manager is destroyed after the vacuum had destroyed a version with
\* its parked wrapper and the worker was stopped inside a later cleaning:
\* the walk from latest met a version and an indexed wrapper, and a version
\* the vacuum had descended to is left allocated.
C23_Witness ==
    /\ mgr_freed
    /\ \E n \in Names : versions[latest].filter_map[n] # 0
    /\ \E v, u \in DOMAIN versions :
          /\ ~VLive(v)
          /\ versions[v].deleted # 0
          /\ \A i \in DOMAIN Chain(versions, latest) :
                Chain(versions, latest)[i] # v
          /\ VLive(u)

=============================================================================
